---- MODULE Spec2Model ----
(***************************************************************************)
(* AlgoKit examples explorer: the backend's embedder gate, corpus store,   *)
(* search orchestrator, HTTP route and start-up sequence, as state         *)
(* machines.  JavaScript runs a handler to completion between two awaits,  *)
(* so every action below is the code between one await and the next.       *)
(***************************************************************************)
EXTENDS Integers, Sequences, FiniteSets, TLC

\* ------------------------------------------------------------------ bounds
\* Concurrent callers of an exported function.
NumCallers == 3
\* Model loads that may be started (a load is retried only after a failure).
MaxLoads == 2

\* JavaScript null.
Null == [tag |-> "null"]
Callers == 1..NumCallers

\* The one caller of the initialisation functions in the programs: start()
\* in index.ts, onMount in the app.
Starter == CHOOSE c \in Callers : \A d \in Callers : c <= d


VARIABLES
  embedder,       \* embedder.ts: let embedder (Null or the loaded model handle)
  isLoading,      \* embedder.ts: let isLoading
  pcE,            \* per caller: position inside initializeEmbedder
  retE,           \* per caller: how its last initializeEmbedder call ended
  loadsStarted,   \* number of pipeline() calls made so far
  loadsSucceeded, \* number of pipeline() calls that resolved
  variant,        \* which database module runs: "backend" (database.ts) or "app" (db.ts)
  db,             \* database.ts / db.ts: let db
  examplesTable,  \* database.ts / db.ts: let examplesTable
  store,          \* the 'examples' table as held by LanceDB
  pcD,            \* per caller: position inside initializeDatabase
  retD,           \* per caller: how its last initializeDatabase call ended
  embeddings,     \* per caller: initializeDatabase's local embeddings
  file,           \* the embeddings file as the last load read it
  rd,             \* a reader of the table: position, last observation
  req,            \* the search request in progress and how it ended
  sim,            \* a distance and the similarity computed for it
  srv,            \* index.ts: where start() is, the exit code, whether a request was taken
  http,           \* the POST /api/search request in progress and its reply
  look,           \* the getExampleById call in progress and how it ended
  prev,           \* history: an earlier outcome a caller has kept, to compare with
  emb,            \* a direct embedQuery call in progress and how it ended
  ui              \* app.tsx: the signals of App and whether a search is awaited

embVars == <<embedder, isLoading, pcE, retE, loadsStarted, loadsSucceeded>>
dbVars == <<variant, db, examplesTable, store, pcD, retD, embeddings, file>>
vars == <<embVars, dbVars, rd, req, sim, srv, http, look, prev, emb, ui>>

\* ---------------------------------------------------------------- embedder
\* The handle pipeline() resolves to.
ModelHandle == [tag |-> "pipeline", name |-> "Xenova/all-MiniLM-L6-v2"]

InitEmbedder ==
  /\ embedder = Null
  /\ isLoading = FALSE
  /\ pcE = [c \in Callers |-> "idle"]
  /\ retE = [c \in Callers |-> "none"]
  /\ loadsStarted = 0
  /\ loadsSucceeded = 0

\* initializeEmbedder with the isLoading check removed: every caller that
\* finds no model starts a load of its own.
initializeEmbedderNoGate(c) ==
  /\ pcE[c] = "idle"
  /\ \/ embedder # Null
     \/ loadsStarted < MaxLoads
  /\ IF embedder # Null
       THEN /\ pcE' = [pcE EXCEPT ![c] = "done"]
            /\ retE' = [retE EXCEPT ![c] = "already"]
            /\ UNCHANGED <<isLoading, loadsStarted>>
       ELSE /\ isLoading' = TRUE
            /\ loadsStarted' = loadsStarted + 1
            /\ pcE' = [pcE EXCEPT ![c] = "loading"]
            /\ retE' = [retE EXCEPT ![c] = "none"]
  /\ UNCHANGED <<embedder, loadsSucceeded>>

\* initializeEmbedder, from its entry to its first await: return at once when
\* the model is there, enter the wait loop when a load is in flight, else set
\* isLoading and call pipeline().
initializeEmbedder(c) ==
  /\ pcE[c] = "idle"
  /\ \/ embedder # Null
     \/ isLoading
     \/ loadsStarted < MaxLoads
  /\ IF embedder # Null
       THEN /\ pcE' = [pcE EXCEPT ![c] = "done"]
            /\ retE' = [retE EXCEPT ![c] = "already"]
            /\ UNCHANGED <<isLoading, loadsStarted>>
       ELSE IF isLoading
         THEN /\ pcE' = [pcE EXCEPT ![c] = "waiting"]
              /\ retE' = [retE EXCEPT ![c] = "none"]
              /\ UNCHANGED <<isLoading, loadsStarted>>
         ELSE /\ isLoading' = TRUE
              /\ loadsStarted' = loadsStarted + 1
              /\ pcE' = [pcE EXCEPT ![c] = "loading"]
              /\ retE' = [retE EXCEPT ![c] = "none"]
  /\ UNCHANGED <<embedder, loadsSucceeded>>

\* pipeline() resolves: the handle is stored, the finally block clears
\* isLoading and the call returns.
pipelineResolved(c) ==
  /\ pcE[c] = "loading"
  /\ embedder' = ModelHandle
  /\ isLoading' = FALSE
  /\ loadsSucceeded' = loadsSucceeded + 1
  /\ pcE' = [pcE EXCEPT ![c] = "done"]
  /\ retE' = [retE EXCEPT ![c] = "loaded"]
  /\ UNCHANGED loadsStarted

\* pipelineRejected without the finally block: isLoading is left true.
pipelineRejectedKeepsLoading(c) ==
  /\ pcE[c] = "loading"
  /\ pcE' = [pcE EXCEPT ![c] = "done"]
  /\ retE' = [retE EXCEPT ![c] = "threw"]
  /\ UNCHANGED <<embedder, isLoading, loadsStarted, loadsSucceeded>>

\* pipeline() rejects: the catch block throws a new Error, the finally block
\* clears isLoading; embedder stays null.
pipelineRejected(c) ==
  /\ pcE[c] = "loading"
  /\ isLoading' = FALSE
  /\ pcE' = [pcE EXCEPT ![c] = "done"]
  /\ retE' = [retE EXCEPT ![c] = "threw"]
  /\ UNCHANGED <<embedder, loadsStarted, loadsSucceeded>>

\* The wait loop's timer fires and finds isLoading false: the waiting call
\* returns (while isLoading is still true the loop sleeps again, which
\* changes nothing).
waitLoopExit(c) ==
  /\ pcE[c] = "waiting"
  /\ ~isLoading
  /\ pcE' = [pcE EXCEPT ![c] = "done"]
  /\ retE' = [retE EXCEPT ![c] = "waited"]
  /\ UNCHANGED <<embedder, isLoading, loadsStarted, loadsSucceeded>>

\* The caller goes on and may call again.
callerContinues(c) ==
  /\ pcE[c] = "done"
  /\ pcE' = [pcE EXCEPT ![c] = "idle"]
  /\ UNCHANGED <<embedder, isLoading, retE, loadsStarted, loadsSucceeded>>

LoadsInFlight == Cardinality({c \in Callers : pcE[c] = "loading"})

\* ------------------------------------------------------------ corpus store
\* Vector length fixed by examplesSchema and checked by embedQuery.
D == 384
\* Vector components are held in fifths: <<3, 4, 0, ...>> is (0.6, 0.8, 0, ...).
VecScale == 5

\* The vector (x/5, y/5, 0, ..., 0) with n components.
Vec(x, y, n) == [i \in 1..n |-> IF i = 1 THEN x ELSE IF i = 2 THEN y ELSE 0]

Example(id, v) == [example_id |-> id, title |-> id, vector |-> v]

\* Record arrays an embeddings.json may hold.
UnitCorpus ==
  << Example("e1", Vec(5, 0, D)), Example("e2", Vec(0, 5, D)),
     Example("e3", Vec(-5, 0, D)) >>
TiedCorpus ==
  << Example("t1", Vec(0, 5, D)), Example("t2", Vec(3, 4, D)),
     Example("t3", Vec(0, -5, D)), Example("t4", Vec(3, 4, D)) >>
LongVectorCorpus ==
  << Example("n1", Vec(-10, 0, D)), Example("n2", Vec(4, 3, D)) >>
OtherDimensionCorpus ==
  << Example("w1", Vec(5, 0, D - 1)), Example("w2", Vec(0, 5, D - 1)) >>
ShortRecordCorpus ==
  << Example("s1", Vec(5, 0, D)), Example("s2", Vec(0, 5, D - 1)) >>

\* What the embeddings file may be when it is read: absent, not JSON, JSON
\* that is no array, or an array of records.
CorpusFiles ==
  { [kind |-> "missing", records |-> << >>],
    [kind |-> "malformed", records |-> << >>],
    [kind |-> "notArray", records |-> << >>],
    [kind |-> "array", records |-> << >>],
    [kind |-> "array", records |-> UnitCorpus],
    [kind |-> "array", records |-> TiedCorpus],
    [kind |-> "array", records |-> LongVectorCorpus],
    [kind |-> "array", records |-> ShortRecordCorpus],
    [kind |-> "array", records |-> OtherDimensionCorpus] }

\* No embeddings file has been read yet.
UnreadFile == [kind |-> "unread", records |-> << >>]

\* The 'examples' table inside LanceDB: absent, being written, or committed.
AbsentStore == [state |-> "absent", rows |-> << >>]
\* A table left in the database directory (or in IndexedDB) by an earlier run.
EarlierRunStore ==
  [state |-> "committed", rows |-> << Example("old", Vec(0, 5, D)) >>]

Connection == [tag |-> "connection"]
TableHandle == [tag |-> "table", name |-> "examples"]

InitDatabase ==
  /\ variant \in {"backend", "app"}
  /\ db = Null
  /\ examplesTable = Null
  /\ store \in {AbsentStore, EarlierRunStore}
  /\ pcD = [c \in Callers |-> "idle"]
  /\ retD = [c \in Callers |-> "none"]
  /\ embeddings = [c \in Callers |-> << >>]
  /\ file = UnreadFile

\* initializeDatabase without its early return: a call made after the load
\* connects and loads again.
initializeDatabaseAgain(c) ==
  /\ pcD[c] = "idle"
  /\ pcD' = [pcD EXCEPT ![c] = "connecting"]
  /\ retD' = [retD EXCEPT ![c] = "none"]
  /\ UNCHANGED <<variant, file, db, examplesTable, store, embeddings>>

\* initializeDatabase up to its first await: return when the table is there,
\* else call lancedb.connect.
initializeDatabase(c) ==
  /\ pcD[c] = "idle"
  /\ IF examplesTable # Null
       THEN /\ pcD' = [pcD EXCEPT ![c] = "done"]
            /\ retD' = [retD EXCEPT ![c] = "already"]
       ELSE /\ pcD' = [pcD EXCEPT ![c] = "connecting"]
            /\ retD' = [retD EXCEPT ![c] = "none"]
  /\ UNCHANGED <<variant, file, db, examplesTable, store, embeddings>>

\* lancedb.connect rejects: the error leaves initializeDatabase.
connectRejected(c) ==
  /\ pcD[c] = "connecting"
  /\ pcD' = [pcD EXCEPT ![c] = "done"]
  /\ retD' = [retD EXCEPT ![c] = "threw"]
  /\ UNCHANGED <<variant, file, db, examplesTable, store, embeddings>>

\* database.ts after connect: db is set, the file is read and parsed, the
\* array is checked, and createTable is called in overwrite mode.
readEmbeddingsFile(c) ==
  /\ variant = "backend"
  /\ pcD[c] = "connecting"
  /\ db' = Connection
  /\ \E f \in CorpusFiles :
       /\ file' = f
       /\ IF f.kind # "array" \/ Len(f.records) = 0
         THEN /\ pcD' = [pcD EXCEPT ![c] = "done"]
              /\ retD' = [retD EXCEPT ![c] = "threw"]
              /\ UNCHANGED <<store, embeddings>>
         ELSE /\ pcD' = [pcD EXCEPT ![c] = "creating"]
              /\ embeddings' = [embeddings EXCEPT ![c] = f.records]
              /\ store' = [state |-> "writing", rows |-> << >>]
              /\ UNCHANGED retD
  /\ UNCHANGED <<variant, examplesTable>>

\* db.ts after connect: db is set and /embeddings.json is fetched.
fetchEmbeddings(c) ==
  /\ variant = "app"
  /\ pcD[c] = "connecting"
  /\ db' = Connection
  /\ \E f \in CorpusFiles :
       /\ file' = f
       /\ IF f.kind \in {"missing", "malformed"}
         THEN /\ pcD' = [pcD EXCEPT ![c] = "done"]
              /\ retD' = [retD EXCEPT ![c] = "threw"]
              /\ UNCHANGED embeddings
         ELSE /\ pcD' = [pcD EXCEPT ![c] = "dropping"]
              /\ embeddings' = [embeddings EXCEPT ![c] = f.records]
              /\ UNCHANGED retD
  /\ UNCHANGED <<variant, examplesTable, store>>

\* db.ts: dropTable settles (a rejection is swallowed) and createTable is
\* called.
dropTable(c) ==
  /\ variant = "app"
  /\ pcD[c] = "dropping"
  /\ pcD' = [pcD EXCEPT ![c] = "creating"]
  /\ store' = [state |-> "writing", rows |-> << >>]
  /\ UNCHANGED <<variant, file, db, examplesTable, retD, embeddings>>

\* createTable is given no record (db.ts checks neither that the JSON is an
\* array nor that it holds one) and no schema: it rejects.
createTableRejectsEmpty(c) ==
  /\ pcD[c] = "creating"
  /\ Len(embeddings[c]) = 0
  /\ pcD' = [pcD EXCEPT ![c] = "done"]
  /\ retD' = [retD EXCEPT ![c] = "threw"]
  /\ UNCHANGED <<variant, file, db, examplesTable, store, embeddings>>

\* createTable writes the records one by one. The backend's examplesSchema
\* fixes the vector at D components, and a record of another length makes
\* createTable reject. The app gives no schema: the store takes the vector
\* length from the first record, and whether it then refuses a later record
\* of another length is the library's matter, so both outcomes are kept.
createTableWrites(c) ==
  /\ pcD[c] = "creating"
  /\ Len(store.rows) < Len(embeddings[c])
  /\ LET row == embeddings[c][Len(store.rows) + 1]
         refused == /\ pcD' = [pcD EXCEPT ![c] = "done"]
                    /\ retD' = [retD EXCEPT ![c] = "threw"]
                    /\ UNCHANGED store
         written == /\ store' = [store EXCEPT !.rows = Append(@, row)]
                    /\ UNCHANGED <<pcD, retD>>
     IN IF variant = "backend"
          THEN IF Len(row.vector) # D THEN refused ELSE written
          ELSE \/ written
               \/ Len(row.vector) # Len(embeddings[c][1].vector) /\ refused
  /\ UNCHANGED <<variant, file, db, examplesTable, embeddings>>

\* createTable with the handle published as soon as writing starts.
createTableResolvedEarly(c) ==
  /\ pcD[c] = "creating"
  /\ Len(embeddings[c]) > 0
  /\ store' = [store EXCEPT !.state =
                 IF Len(store.rows) = Len(embeddings[c])
                   THEN "committed" ELSE @]
  /\ examplesTable' = TableHandle
  /\ pcD' = [pcD EXCEPT ![c] =
               IF Len(store.rows) = Len(embeddings[c]) THEN "done" ELSE @]
  /\ retD' = [retD EXCEPT ![c] =
                IF Len(store.rows) = Len(embeddings[c]) THEN "loaded" ELSE @]
  /\ UNCHANGED <<variant, file, db, embeddings>>

\* createTable resolves once every record is written: the table is
\* committed and only now assigned to examplesTable.
createTableResolved(c) ==
  /\ pcD[c] = "creating"
  /\ Len(embeddings[c]) > 0
  /\ Len(store.rows) = Len(embeddings[c])
  /\ store' = [store EXCEPT !.state = "committed"]
  /\ examplesTable' = TableHandle
  /\ pcD' = [pcD EXCEPT ![c] = "done"]
  /\ retD' = [retD EXCEPT ![c] = "loaded"]
  /\ UNCHANGED <<variant, file, db, embeddings>>

\* The caller goes on and may call initializeDatabase again.
dbCallerContinues(c) ==
  /\ pcD[c] = "done"
  /\ pcD' = [pcD EXCEPT ![c] = "idle"]
  /\ UNCHANGED <<variant, file, db, examplesTable, store, retD, embeddings>>

\* What a query through a table handle meets.
TableView ==
  IF store.state = "absent"
    THEN [tag |-> "dropped", rows |-> << >>, complete |-> FALSE]
    ELSE [tag |-> "rows", rows |-> store.rows,
          complete |-> store.state = "committed"]

\* getTable without its check: the handle is returned as it is.
getTableUnchecked == [ok |-> TRUE, error |-> "", table |-> examplesTable]

\* getTable: throws while examplesTable is null, else returns it.
getTable ==
  IF examplesTable = Null
    THEN [ok |-> FALSE, error |-> "NotInitialized", table |-> Null]
    ELSE [ok |-> TRUE, error |-> "", table |-> examplesTable]

\* isInitialized of the database module.
isDbInitialized == examplesTable # Null

NoObservation == [tag |-> "none", rows |-> << >>, complete |-> FALSE]
NotInitializedSeen == [tag |-> "NotInitialized", rows |-> << >>, complete |-> FALSE]

InitReader == rd = [pc |-> "idle", obs |-> NoObservation]

\* A reader calls getTable and, holding a handle, starts a query on it.
readerGetsTable ==
  /\ rd.pc = "idle"
  /\ rd' = IF getTable.ok
             THEN [pc |-> "querying", obs |-> NoObservation]
             ELSE [pc |-> "idle", obs |-> NotInitializedSeen]

\* The reader's query settles with what the table held.
readerQuerySettles ==
  /\ rd.pc = "querying"
  /\ rd' = [pc |-> "idle", obs |-> TableView]

\* getDatabaseStats: throws while examplesTable is null, else counts rows.
getDatabaseStats ==
  /\ rd.pc = "idle"
  /\ rd' = IF examplesTable = Null
             THEN [pc |-> "idle", obs |-> NotInitializedSeen]
             ELSE [pc |-> "counting", obs |-> NoObservation]

countRowsSettles ==
  /\ rd.pc = "counting"
  /\ rd' = [pc |-> "idle", obs |-> [TableView EXCEPT !.tag =
                                      IF @ = "rows" THEN "count" ELSE @]]

\* ----------------------------------------------------------------- strings
\* A string is held as its runs of equal characters: "  ab" is
\* <<[ch |-> " ", n |-> 2], [ch |-> "a", n |-> 1], [ch |-> "b", n |-> 1]>>.
Run(ch, n) == [ch |-> ch, n |-> n]

\* String.prototype.length.
RECURSIVE Length(_)
Length(s) == IF s = << >> THEN 0 ELSE Head(s).n + Length(Tail(s))

IsWhitespace(ch) == ch \in {" ", "\t", "\n"}

RECURSIVE trimStart(_)
trimStart(s) ==
  IF s = << >> THEN << >>
  ELSE IF IsWhitespace(Head(s).ch) THEN trimStart(Tail(s)) ELSE s

RECURSIVE trimEnd(_)
trimEnd(s) ==
  IF s = << >> THEN << >>
  ELSE IF IsWhitespace(s[Len(s)].ch) THEN trimEnd(SubSeq(s, 1, Len(s) - 1)) ELSE s

\* String.prototype.trim.
trim(s) == trimEnd(trimStart(s))

\* A string used as a condition: the empty string is false.
Truthy(s) == Length(s) > 0

\* ------------------------------------------------------------------ vectors
Min(a, b) == IF a < b THEN a ELSE b
Max(a, b) == IF a > b THEN a ELSE b

\* Sum of the squared component differences over lo..hi.
RECURSIVE SumSqDiff(_, _, _, _)
SumSqDiff(u, v, lo, hi) ==
  IF lo > hi THEN 0
  ELSE IF lo = hi THEN (u[lo] - v[lo]) * (u[lo] - v[lo])
  ELSE LET mid == (lo + hi) \div 2 IN
         SumSqDiff(u, v, lo, mid) + SumSqDiff(u, v, mid + 1, hi)

\* The largest r in lo..hi with r * r <= n.
RECURSIVE ISqrtIn(_, _, _)
ISqrtIn(n, lo, hi) ==
  IF lo = hi THEN lo
  ELSE LET mid == (lo + hi + 1) \div 2 IN
         IF mid * mid <= n THEN ISqrtIn(n, mid, hi) ELSE ISqrtIn(n, lo, mid - 1)

\* 46340 is the largest r whose square is a 32-bit integer.
ISqrt(n) == ISqrtIn(n, 0, Min(n, 46340))

\* Distances are held in thousandths.
DistUnit == 1000

\* Euclidean distance between two vectors of D components, in thousandths
\* (rounded down).
L2Distance(u, v) ==
  ISqrt((SumSqDiff(u, v, 1, D) * DistUnit * DistUnit) \div (VecScale * VecScale))

\* ---------------------------------------------------- nearest neighbours
\* table.search(queryVector).limit(k).toArray() on a table holding rows: the
\* k nearest rows by ascending distance, equal distances in row order, each
\* with its _distance.
WithDistance(row, q) ==
  [example_id |-> row.example_id, title |-> row.title, vector |-> row.vector,
   _distance |-> L2Distance(q, row.vector)]

Rank(ds, i) ==
  1 + Cardinality({j \in 1..Len(ds) : ds[j] < ds[i] \/ (ds[j] = ds[i] /\ j < i)})

NearestNeighbors(rows, q, k) ==
  LET scored == [i \in 1..Len(rows) |-> WithDistance(rows[i], q)]
      ds == [i \in 1..Len(rows) |-> scored[i]._distance]
      at(p) == CHOOSE i \in 1..Len(rows) : Rank(ds, i) = p
  IN [p \in 1..Min(k, Len(rows)) |-> scored[at(p)]]

\* distanceToSimilarity with the distance weighed 100 instead of 50.
distanceToSimilarityPerUnit(distance) ==
  LET twice == 2 * 100 * 10 - (distance * 100 * 10 * 2) \div DistUnit
  IN Max(0, Min(100 * 10, (twice + 1) \div 2))

\* --------------------------------------------------------- search service
\* distanceToSimilarity without the clamp to 0..100.
distanceToSimilarityUnclamped(distance) ==
  LET twice == 2 * 100 * 10 - (distance * 50 * 10 * 2) \div DistUnit
  IN (twice + 1) \div 2

\* distanceToSimilarity, in tenths of a percent: similarity = 100 -
\* distance * 50, then max(0, min(100, Math.round(similarity * 10) / 10)).
\* twice is similarity * 10 doubled, so that Math.round (half rounds up) is
\* (twice + 1) \div 2.
distanceToSimilarity(distance) ==
  LET twice == 2 * 100 * 10 - (distance * 50 * 10 * 2) \div DistUnit
  IN Max(0, Min(100 * 10, (twice + 1) \div 2))

\* distanceToSimilarity of the API client, in tenths of a percent: the same
\* expression as the backend's.
clientDistanceToSimilarity(distance) ==
  LET twice == 2 * 100 * 10 - (distance * 50 * 10 * 2) \div DistUnit
  IN Max(0, Min(100 * 10, (twice + 1) \div 2))

\* distanceToSimilarity of the in-browser search library, in hundredths of a
\* percent: ((2 - distance) / 2) * 100 clamped to 0..100 and not rounded. A
\* distance in thousandths gives a whole number of hundredths.
libraryDistanceToSimilarity(distance) ==
  LET similarity == ((2 * DistUnit - distance) * 100 * 100) \div (2 * DistUnit)
  IN Max(0, Min(100 * 100, similarity))

\* Longest query searchExamples accepts.
MaxQueryLength == 500
\* Bounds and default of the limit parameter.
MinLimit == 1
MaxLimit == 50
DefaultLimit == 10

\* Error messages, as sequences of their parts.
EmptyQueryError == << "Search query cannot be empty" >>
TooLongError == << "Search query too long (max 500 characters)" >>
EmbedderNotReadyError ==
  << "Embedder not initialized. Call initializeEmbedder() first." >>
EmbedEmptyError == << "Query cannot be empty" >>
DatabaseNotInitializedError ==
  << "Database not initialized. Call initializeDatabase() first." >>
ModelError == << "model inference failed" >>
StoreError == << "table query failed" >>
DimensionError(n) == << "Expected 384-dimensional vector, got ", ToString(n) >>
EmbeddingFailed(cause) == << "Embedding generation failed: " >> \o cause
SearchFailed(cause) == << "Search query failed: " >> \o cause

\* The query texts offered to search.
Queries ==
  { << >>,
    << Run(" ", 1) >>,
    << Run(" ", 2), Run("\t", 1) >>,
    << Run(" ", MaxQueryLength + 1) >>,
    << Run("a", 1) >>,
    << Run(" ", 1), Run("a", 1), Run("b", 1), Run(" ", 2) >>,
    << Run("a", MaxQueryLength - 1) >>,
    << Run("a", MaxQueryLength) >>,
    << Run("a", MaxQueryLength + 1) >>,
    << Run("b", MaxQueryLength - 1), Run(" ", 2) >>,
    << Run(" ", 1), Run("b", MaxQueryLength - 1) >> }

\* The limit arguments offered to search: << >> is a missing (undefined)
\* limit, << n >> the number n.
Limits ==
  { << >>, << -3 >>, << 0 >>, << 1 >>, << 2 >>, << 3 >>, << DefaultLimit >>,
    << MaxLimit >>, << MaxLimit + 1 >>, << 1000 >> }

\* The vector the loaded model gives a text: a unit vector fixed by the text.
UnitVectors ==
  << Vec(5, 0, D), Vec(3, 4, D), Vec(0, 5, D), Vec(-4, 3, D), Vec(0, -5, D) >>
ModelOutput(query) == UnitVectors[(Length(query) % Len(UnitVectors)) + 1]

NoResponse == [results |-> << >>, query |-> << >>, count |-> 0]
IdleRequest ==
  [pc |-> "idle", query |-> << >>, limit |-> << >>, clampedLimit |-> 0,
   queryVector |-> << >>, embedCalls |-> 0, searchCalls |-> 0,
   searchLimit |-> 0, retrieved |-> << >>, loadedAtCall |-> FALSE,
   status |-> "none",
   error |-> << >>, response |-> NoResponse]

InitRequest == req = IdleRequest

\* searchExamples ends by throwing error.
Thrown(r, error) == [r EXCEPT !.pc = "done", !.status = "error", !.error = error]

\* The clamp with the limit of an earlier search kept in place of the one
\* given.
ClampLimitCached(limit) ==
  LET given == IF prev.kind = "search" THEN prev.limit ELSE limit
      number == IF given = << >> THEN DefaultLimit ELSE given[1]
  IN Max(MinLimit, Min(MaxLimit, number))

\* The clamp of searchExamples: Math.max(1, Math.min(50, limit)), the
\* parameter defaulting to 10 when the argument is undefined.
ClampLimit(limit) ==
  LET given == IF limit = << >> THEN DefaultLimit ELSE limit[1]
  IN Max(MinLimit, Min(MaxLimit, given))

\* The validation with the length compared by >= instead of >.
ValidateQueryOffByOne(query) ==
  IF ~Truthy(query) \/ ~Truthy(trim(query)) THEN EmptyQueryError
  ELSE IF Length(query) >= MaxQueryLength THEN TooLongError
  ELSE << >>

\* The validation of searchExamples: the error it throws, or << >>.
ValidateQuery(query) ==
  IF ~Truthy(query) \/ ~Truthy(trim(query)) THEN EmptyQueryError
  ELSE IF Length(query) > MaxQueryLength THEN TooLongError
  ELSE << >>

\* searchExamples with the validation moved after the embedQuery call.
searchExamplesEmbedsFirst(query, limit) ==
  /\ req.pc = "idle"
  /\ LET r0 == [IdleRequest EXCEPT !.query = query, !.limit = limit,
                                  !.loadedAtCall = isDbInitialized,
                                  !.clampedLimit = ClampLimit(limit)]
         r1 == [r0 EXCEPT !.embedCalls = 1]
     IN req' = IF embedder = Null
                 THEN Thrown(r1, SearchFailed(EmbedderNotReadyError))
               ELSE IF ValidateQuery(query) # << >>
                 THEN Thrown(r1, ValidateQuery(query))
               ELSE [r1 EXCEPT !.pc = "embedding"]

\* searchExamples from its entry to the await of embedQuery: validate the
\* query, clamp the limit, call embedQuery, whose own checks run at once.
searchExamples(query, limit) ==
  /\ req.pc = "idle"
  /\ LET r0 == [IdleRequest EXCEPT !.query = query, !.limit = limit,
                                  !.loadedAtCall = isDbInitialized]
         r1 == [r0 EXCEPT !.clampedLimit = ClampLimit(limit), !.embedCalls = @ + 1]
     IN req' = IF ValidateQuery(query) # << >>
                 THEN Thrown(r0, ValidateQuery(query))
               ELSE IF embedder = Null
                 THEN Thrown(r1, SearchFailed(EmbedderNotReadyError))
               ELSE IF ~Truthy(trim(query))
                 THEN Thrown(r1, SearchFailed(EmbedEmptyError))
               ELSE [r1 EXCEPT !.pc = "embedding"]

\* embedderRejected with a second attempt: the model is called once more
\* before the failure is thrown.
embedderRejectedRetries ==
  /\ req.pc = "embedding"
  /\ req' = IF req.embedCalls < 2
              THEN [req EXCEPT !.embedCalls = @ + 1]
              ELSE Thrown(req, SearchFailed(EmbeddingFailed(ModelError)))

\* The model call inside embedQuery rejects.
embedderRejected ==
  /\ req.pc = "embedding"
  /\ req' = Thrown(req, SearchFailed(EmbeddingFailed(ModelError)))

\* embedderResolved without embedQuery's length check: the vector the model
\* gave is searched with as it is.
embedderResolvedUnchecked(n) ==
  /\ req.pc = "embedding"
  /\ req' = IF ~getTable.ok
              THEN Thrown(req, SearchFailed(DatabaseNotInitializedError))
            ELSE [req EXCEPT !.pc = "searching",
                             !.queryVector = SubSeq(ModelOutput(req.query), 1, n),
                             !.searchCalls = @ + 1,
                             !.searchLimit = req.clampedLimit]

\* The model call resolves with n components; embedQuery checks the length,
\* then searchExamples calls getTable and starts the table search.
embedderResolved(n) ==
  /\ req.pc = "embedding"
  /\ req' = IF n # D
              THEN Thrown(req, SearchFailed(EmbeddingFailed(DimensionError(n))))
            ELSE IF ~getTable.ok
              THEN Thrown(req, SearchFailed(DatabaseNotInitializedError))
            ELSE [req EXCEPT !.pc = "searching",
                             !.queryVector = ModelOutput(req.query),
                             !.searchCalls = @ + 1,
                             !.searchLimit = req.clampedLimit]

\* The table search rejects.
tableSearchRejected ==
  /\ req.pc = "searching"
  /\ req' = Thrown(req, SearchFailed(StoreError))

\* results.map of searchExamples with the order reversed.
FormatResultsReversed(results) ==
  [i \in 1..Len(results) |->
     LET result == results[Len(results) + 1 - i] IN
       [example_id |-> result.example_id, title |-> result.title,
        vector |-> result.vector, _distance |-> result._distance,
        similarity |-> distanceToSimilarity(result._distance)]]

\* results.map of searchExamples: every result, in place, with similarity
\* added.
FormatResults(results) ==
  [i \in 1..Len(results) |->
     LET result == results[i] IN
       [example_id |-> result.example_id, title |-> result.title,
        vector |-> result.vector, _distance |-> result._distance,
        similarity |-> distanceToSimilarity(result._distance)]]

\* tableSearchResolved with count taken from the limit asked for, not from
\* the results.
tableSearchResolvedCountsLimit ==
  /\ req.pc = "searching"
  /\ TableView.tag = "rows"
  /\ LET results == NearestNeighbors(TableView.rows, req.queryVector, req.searchLimit)
         formattedResults == FormatResults(results)
     IN req' = [req EXCEPT !.pc = "done", !.status = "ok",
                           !.retrieved = results,
                           !.response = [results |-> formattedResults,
                                         query |-> trim(req.query),
                                         count |-> req.searchLimit]]

\* The table search resolves: the results are formatted and the response is
\* returned.
tableSearchResolved ==
  /\ req.pc = "searching"
  /\ TableView.tag = "rows"
  /\ LET results == NearestNeighbors(TableView.rows, req.queryVector, req.searchLimit)
         formattedResults == FormatResults(results)
     IN req' = [req EXCEPT !.pc = "done", !.status = "ok",
                           !.retrieved = results,
                           !.response = [results |-> formattedResults,
                                         query |-> trim(req.query),
                                         count |-> Len(formattedResults)]]

\* The caller has its answer; the next request may come.
requestEnds ==
  /\ req.pc = "done"
  /\ req' = IdleRequest


\* ------------------------------------------------------------- HTTP route
\* SearchRequestSchema, as Fastify checks a request body before the handler
\* runs: the keyword that fails first, or "" when the body is accepted.
SchemaViolation(query, limit) ==
  IF Length(query) < 1 THEN "body/query minLength"
  ELSE IF Length(query) > MaxQueryLength THEN "body/query maxLength"
  ELSE IF limit # << >> /\ limit[1] < MinLimit THEN "body/limit minimum"
  ELSE IF limit # << >> /\ limit[1] > MaxLimit THEN "body/limit maximum"
  ELSE ""

\* The schema's default: a missing limit reaches the handler as 10.
WithDefault(limit) == IF limit = << >> THEN << DefaultLimit >> ELSE limit

\* A result serialised whole, with every property the service gave it.
SerializeResultWhole(r) == r

\* A result as SearchResultSchema serialises it: the properties the schema
\* names.
SerializeResult(r) ==
  [example_id |-> r.example_id, title |-> r.title,
   similarity |-> r.similarity, _distance |-> r._distance]

SerializeResponse(response) ==
  [results |-> [i \in 1..Len(response.results) |->
                  SerializeResult(response.results[i])],
   query |-> response.query, count |-> response.count]

NoPayload == [results |-> << >>, query |-> << >>, count |-> 0]
\* No health report: the request is no health check.
NoReport == [status |-> "none", database |-> FALSE, embedder |-> FALSE,
             examplesCount |-> 0]
IdleHttp ==
  [pc |-> "idle", query |-> << >>, limit |-> << >>, statusCode |-> 0,
   message |-> << >>, payload |-> NoPayload, report |-> NoReport]

InitServer ==
  /\ srv = [pc |-> "boot", exitCode |-> 0, served |-> FALSE]
  /\ http = IdleHttp

\* POST /api/search arrives at the listening server: a body the schema
\* refuses is answered 400 by the error handler, any other starts the
\* handler, which calls searchExamples.
postSearch(query, limit) ==
  /\ srv.pc = "listening"
  /\ http.pc = "idle"
  /\ srv' = [srv EXCEPT !.served = TRUE]
  /\ IF SchemaViolation(query, limit) # ""
       THEN /\ http' = [IdleHttp EXCEPT !.pc = "replied", !.query = query,
                                        !.limit = limit, !.statusCode = 400,
                                        !.message = << SchemaViolation(query, limit) >>]
            /\ UNCHANGED req
       ELSE /\ http' = [IdleHttp EXCEPT !.pc = "handling", !.query = query,
                                        !.limit = limit]
            /\ searchExamples(query, WithDefault(limit))

\* searchExamples has settled: the handler returns the response, or catches
\* the error and replies 500 with its message.
routeReplies ==
  /\ http.pc = "handling"
  /\ req.pc = "done"
  /\ http' = IF req.status = "ok"
               THEN [http EXCEPT !.pc = "replied", !.statusCode = 200,
                                 !.payload = SerializeResponse(req.response)]
               ELSE [http EXCEPT !.pc = "replied", !.statusCode = 500,
                                 !.message = req.error]
  /\ req' = IdleRequest
  /\ UNCHANGED srv

\* The reply is sent; the next request may come.
replySent ==
  /\ http.pc = "replied"
  /\ http' = IdleHttp
  /\ UNCHANGED <<srv, req>>

\* The reply is sent, and the client keeps it to compare a later one with.
clientKeepsReply ==
  /\ http.pc = "replied"
  /\ prev' = [kind |-> "reply", query |-> http.query, limit |-> http.limit,
              statusCode |-> http.statusCode, message |-> http.message]
  /\ http' = IdleHttp
  /\ UNCHANGED <<srv, req>>

\* isInitialized of the embedder module.
isEmbedderInitialized == embedder # Null

\* GET /api/health arrives at the listening server: the handler reads both
\* flags and, the database being initialised, awaits getDatabaseStats;
\* else it returns the report with examplesCount 0.
getHealth ==
  /\ srv.pc = "listening"
  /\ http.pc = "idle"
  /\ LET report == [status |-> "ok", database |-> isDbInitialized,
                    embedder |-> isEmbedderInitialized, examplesCount |-> 0]
     IN http' = IF isDbInitialized /\ examplesTable # Null
                  THEN [IdleHttp EXCEPT !.pc = "counting", !.report = report]
                  ELSE [IdleHttp EXCEPT !.pc = "replied", !.statusCode = 200,
                                        !.report = report]
  /\ srv' = [srv EXCEPT !.served = TRUE]
  /\ UNCHANGED req

\* countRows resolves: the report carries the count.
healthCountResolved ==
  /\ http.pc = "counting"
  /\ http' = [http EXCEPT !.pc = "replied", !.statusCode = 200,
                          !.report.examplesCount = Len(TableView.rows)]
  /\ UNCHANGED <<srv, req>>

\* countRows rejects: the inner catch logs a warning and the report keeps
\* examplesCount 0.
healthCountRejected ==
  /\ http.pc = "counting"
  /\ http' = [http EXCEPT !.pc = "replied", !.statusCode = 200]
  /\ UNCHANGED <<srv, req>>

\* ---------------------------------------------------------------- start-up
Exited(code) == [srv EXCEPT !.pc = "exited", !.exitCode = code]

\* start() calls buildServer, which registers CORS and calls
\* initializeDatabase.
start ==
  /\ srv.pc = "boot"
  /\ initializeDatabase(Starter)
  /\ srv' = [srv EXCEPT !.pc = "initializeDatabase"]
  /\ UNCHANGED <<embVars, http>>

\* buildServer going on to initializeEmbedder whatever initializeDatabase did.
databaseSettledIgnoringFailure ==
  /\ srv.pc = "initializeDatabase"
  /\ pcD[Starter] = "done"
  /\ initializeEmbedder(Starter)
  /\ srv' = [srv EXCEPT !.pc = "initializeEmbedder"]
  /\ UNCHANGED <<dbVars, http>>

\* await initializeDatabase() settles: a rejection reaches the catch of
\* start(), which calls process.exit(1); else initializeEmbedder is called.
databaseSettled ==
  /\ srv.pc = "initializeDatabase"
  /\ pcD[Starter] = "done"
  /\ IF retD[Starter] = "threw"
       THEN /\ srv' = Exited(1)
            /\ UNCHANGED embVars
       ELSE /\ initializeEmbedder(Starter)
            /\ srv' = [srv EXCEPT !.pc = "initializeEmbedder"]
  /\ UNCHANGED <<dbVars, http>>

\* buildServer going on to register the routes whatever initializeEmbedder
\* did.
embedderSettledIgnoringFailure ==
  /\ srv.pc = "initializeEmbedder"
  /\ pcE[Starter] = "done"
  /\ srv' = [srv EXCEPT !.pc = "listen"]
  /\ UNCHANGED <<embVars, dbVars, http>>

\* await initializeEmbedder() settles: a rejection ends in process.exit(1);
\* else the routes and the error handler are registered, buildServer
\* returns and start() calls listen.
embedderSettled ==
  /\ srv.pc = "initializeEmbedder"
  /\ pcE[Starter] = "done"
  /\ srv' = IF retE[Starter] = "threw" THEN Exited(1)
            ELSE [srv EXCEPT !.pc = "listen"]
  /\ UNCHANGED <<embVars, dbVars, http>>

listenResolved ==
  /\ srv.pc = "listen"
  /\ srv' = [srv EXCEPT !.pc = "listening"]
  /\ UNCHANGED <<embVars, dbVars, http>>

\* listen rejects (the port is taken): process.exit(1).
listenRejected ==
  /\ srv.pc = "listen"
  /\ srv' = Exited(1)
  /\ UNCHANGED <<embVars, dbVars, http>>

\* ------------------------------------------------------------ lookup by id
\* An id is a sequence of pieces: pieces of text, and "'" for a quote
\* character.
Quote == "'"
LookupIds ==
  { << >>, << " " >>, << "e1" >>, << "e2" >>, << "zz" >>,
    << "it", Quote, "s" >>,
    << "zz", Quote, " OR ", Quote, "1", Quote, "=", Quote, "1" >> }

\* !exampleId || !exampleId.trim()
IdBlank(id) == \A i \in 1..Len(id) : id[i] \in {" ", "\t"}

ExampleIdEmptyError == << "Example ID cannot be empty" >>
FilterSyntaxError == << "invalid filter expression" >>
RetrieveFailed(cause) == << "Failed to retrieve example: " >> \o cause

\* The filter `example_id = '${exampleId}'` as the store reads it. The string
\* literal ends at the first quote character, so an id without a quote is
\* compared whole; after a quote the rest of the id is read as more of the
\* expression, which then either is well formed (here: OR '1'='1', true of
\* every row) or is a syntax error.
FirstQuote(id) ==
  IF \E i \in 1..Len(id) : id[i] = Quote
    THEN CHOOSE i \in 1..Len(id) : id[i] = Quote /\ \A j \in 1..(i - 1) : id[j] # Quote
    ELSE 0

AlwaysTrueTail == << " OR ", Quote, "1", Quote, "=", Quote, "1" >>

ParseFilter(id) ==
  IF FirstQuote(id) = 0
    THEN [kind |-> "equals", literal |-> id]
  ELSE IF SubSeq(id, FirstQuote(id) + 1, Len(id)) = AlwaysTrueTail
    THEN [kind |-> "always", literal |-> SubSeq(id, 1, FirstQuote(id) - 1)]
  ELSE [kind |-> "error", literal |-> << >>]

\* Rows of the table the filter keeps, in table order.
Matches(rows, filter) ==
  SelectSeq(rows, LAMBDA row : \/ filter.kind = "always"
                               \/ filter.literal = << row.example_id >>)

NoExample == [example_id |-> "", title |-> "", vector |-> << >>]
IdleLookup ==
  [pc |-> "idle", id |-> << >>, status |-> "none", error |-> << >>,
   example |-> NoExample, loadedAtCall |-> FALSE, queries |-> 0,
   cause |-> << >>]

InitLookup == look = IdleLookup

\* How getExampleById ends when its try block throws cause: the backend
\* rethrows it wrapped, the app catches it and returns null. cause is kept
\* for the record; the caller does not see it.
LookupFailed(l, cause) ==
  IF variant = "backend"
    THEN [l EXCEPT !.pc = "done", !.status = "error", !.cause = cause,
                   !.error = RetrieveFailed(cause)]
    ELSE [l EXCEPT !.pc = "done", !.status = "null", !.cause = cause]

\* getExampleById up to its await: the backend refuses a blank id, getTable
\* throws while the table is not loaded, else the filtered query is started.
getExampleById(exampleId) ==
  /\ look.pc = "idle"
  /\ LET l0 == [IdleLookup EXCEPT !.id = exampleId, !.loadedAtCall = isDbInitialized]
     IN look' = IF variant = "backend" /\ IdBlank(exampleId)
                  THEN [l0 EXCEPT !.pc = "done", !.status = "error",
                                  !.error = ExampleIdEmptyError]
                ELSE IF ~getTable.ok
                  THEN LookupFailed(l0, DatabaseNotInitializedError)
                ELSE [l0 EXCEPT !.pc = "querying", !.queries = 1]

\* The filtered query resolves, or rejects for a filter the store cannot
\* read: no row gives null, else the first row is returned.
lookupResolved ==
  /\ look.pc = "querying"
  /\ TableView.tag = "rows"
  /\ LET filter == ParseFilter(look.id)
         kept == Matches(TableView.rows, filter)
         results == SubSeq(kept, 1, Min(1, Len(kept)))
     IN look' = IF filter.kind = "error"
                  THEN LookupFailed(look, FilterSyntaxError)
                ELSE IF Len(results) = 0
                  THEN [look EXCEPT !.pc = "done", !.status = "null"]
                ELSE [look EXCEPT !.pc = "done", !.status = "ok",
                                  !.example = results[1]]

\* The filtered query rejects (a failure of the store).
lookupRejected ==
  /\ look.pc = "querying"
  /\ look' = LookupFailed(look, StoreError)

\* The caller has its answer; the next lookup may come.
lookupEnds ==
  /\ look.pc = "done"
  /\ look' = IdleLookup

\* GET /api/examples/:id arrives at the listening server: the handler calls
\* getExampleById.
getExample(id) ==
  /\ srv.pc = "listening"
  /\ http.pc = "idle"
  /\ getExampleById(id)
  /\ http' = [IdleHttp EXCEPT !.pc = "looking"]
  /\ srv' = [srv EXCEPT !.served = TRUE]
  /\ UNCHANGED req

\* getExampleById has settled: null is answered 404, an example 200, an
\* error 500 with its message.
exampleReplies ==
  /\ http.pc = "looking"
  /\ look.pc = "done"
  /\ http' = IF look.status = "null"
               THEN [http EXCEPT !.pc = "replied", !.statusCode = 404]
             ELSE IF look.status = "ok"
               THEN [http EXCEPT !.pc = "replied", !.statusCode = 200]
             ELSE [http EXCEPT !.pc = "replied", !.statusCode = 500,
                               !.message = look.error]
  /\ look' = IdleLookup
  /\ UNCHANGED <<srv, req>>

\* ------------------------------------------------------------- embedQuery
\* A caller of embedQuery other than the one that initialises the services.
Asker == CHOOSE c \in Callers : c # Starter /\ \A d \in Callers \ {Starter} : c <= d

NotAFunctionError == << "model is not a function" >>
ModelLoadError == << "model load failed" >>

IdleEmbedQuery ==
  [pc |-> "idle", query |-> << >>, status |-> "none", error |-> << >>,
   vector |-> << >>, readyAtCall |-> FALSE, startedLoad |-> FALSE]

InitEmbedQuery == emb = IdleEmbedQuery

EmbedThrown(e, error) == [e EXCEPT !.pc = "done", !.status = "error", !.error = error]

\* embedQuery up to its first await. Backend: throws while embedder is null,
\* then for a blank text, else calls the model. App: throws for a blank
\* text, else calls its initializeEmbedder, which loads the model if no load
\* has been made or is in flight.
embedQuery(query) ==
  /\ emb.pc = "idle"
  /\ LET e0 == [IdleEmbedQuery EXCEPT !.query = query, !.readyAtCall = embedder # Null]
     IN IF variant = "backend"
          THEN /\ emb' = IF embedder = Null THEN EmbedThrown(e0, EmbedderNotReadyError)
                         ELSE IF ~Truthy(trim(query)) THEN EmbedThrown(e0, EmbedEmptyError)
                         ELSE [e0 EXCEPT !.pc = "model"]
               /\ UNCHANGED embVars
          ELSE IF ~Truthy(trim(query))
            THEN /\ emb' = EmbedThrown(e0, EmbedEmptyError)
                 /\ UNCHANGED embVars
            ELSE /\ initializeEmbedder(Asker)
                 /\ emb' = [e0 EXCEPT !.pc = "initializing",
                                      !.startedLoad = (embedder = Null /\ ~isLoading)]

\* App: await initializeEmbedder() settles. A rejected load is rethrown; a
\* wait that ended after a failed load returns null, and calling it throws;
\* else the model is called.
embedQueryInitialized ==
  /\ emb.pc = "initializing"
  /\ pcE[Asker] = "done"
  /\ emb' = IF retE[Asker] = "threw" THEN EmbedThrown(emb, ModelLoadError)
            ELSE IF embedder = Null THEN EmbedThrown(emb, NotAFunctionError)
            ELSE [emb EXCEPT !.pc = "model"]
  /\ callerContinues(Asker)

\* The model call resolves with n components: the backend checks the
\* length, the app returns the vector as it is.
embedQueryResolved(n) ==
  /\ emb.pc = "model"
  /\ emb' = IF variant = "backend" /\ n # D
              THEN EmbedThrown(emb, EmbeddingFailed(DimensionError(n)))
              ELSE [emb EXCEPT !.pc = "done", !.status = "ok",
                               !.vector = SubSeq(ModelOutput(emb.query), 1, n)]
  /\ UNCHANGED embVars

\* The model call rejects: the backend wraps the error, the app lets it pass.
embedQueryRejected ==
  /\ emb.pc = "model"
  /\ emb' = IF variant = "backend" THEN EmbedThrown(emb, EmbeddingFailed(ModelError))
            ELSE EmbedThrown(emb, ModelError)
  /\ UNCHANGED embVars

\* The caller has its answer; the next call may come.
embedQueryEnds ==
  /\ emb.pc = "done"
  /\ emb' = IdleEmbedQuery
  /\ UNCHANGED embVars

\* --------------------------------------------------------------------- UI
\* App of app.tsx. With the backend modules the page is the API client's
\* (src/app/src/app.tsx); with the in-browser modules it is the page that
\* searches locally. handleSearch is the same in both but for the message
\* shown when the backend cannot be reached.
EmptyQueryMessage == << "Please enter a search query" >>
BackendDownMessage ==
  << "Backend API is not running. Start it with: cd backend && npm run dev" >>
CannotConnectError ==
  << "Cannot connect to backend. Is it running on http://localhost:3001?" >>

\* The texts typed into the search box.
UiQueries ==
  { << >>, << Run(" ", 1) >>, << Run("a", 1) >>, << Run("b", 1) >> }

\* What searchExamples may resolve to, and the errors it may throw.
UiResultLists == { << >>, << "e1" >>, << "e1", "e2" >> }
UiErrors == { CannotConnectError, SearchFailed(StoreError) }

InitUi ==
  ui = [query |-> << >>, isSearching |-> FALSE, searchError |-> << >>,
        results |-> << >>, awaiting |-> FALSE]

\* onInput of the search box, which is disabled while isSearching.
setQuery(value) ==
  /\ ~ui.isSearching
  /\ ui' = [ui EXCEPT !.query = value]

\* handleSearch up to its await, called by the button's onClick (the button
\* is disabled while isSearching or for a blank query) or by the Enter key
\* in the search box (disabled while isSearching).
handleSearch(via) ==
  /\ ~ui.isSearching
  /\ via = "click" => Truthy(trim(ui.query))
  /\ ui' = IF ~Truthy(trim(ui.query))
             THEN [ui EXCEPT !.searchError = EmptyQueryMessage]
             ELSE [ui EXCEPT !.isSearching = TRUE, !.searchError = << >>,
                             !.results = << >>, !.awaiting = TRUE]

\* searchExamples resolves: the results are set, finally clears isSearching.
uiSearchResolved(results) ==
  /\ ui.awaiting
  /\ ui' = [ui EXCEPT !.results = results, !.isSearching = FALSE,
                      !.awaiting = FALSE]

\* searchExamples rejects: the message is shown, finally clears isSearching.
uiSearchRejected(message) ==
  /\ ui.awaiting
  /\ ui' = [ui EXCEPT !.searchError =
                         IF variant = "backend" /\ message = CannotConnectError
                           THEN BackendDownMessage ELSE message,
                      !.isSearching = FALSE, !.awaiting = FALSE]

\* ----------------------------------------------------------------- history
NoPrev == [kind |-> "none"]
InitHistory == prev = NoPrev

\* ---------------------------------------------------------- specifications

\* What each component's steps leave alone.
EmbedderStep == UNCHANGED <<dbVars, rd, req, sim, srv, http, look, prev, emb, ui>>
DatabaseStep == UNCHANGED <<embVars, rd, req, sim, srv, http, look, prev, emb, ui>>
ReaderStep == UNCHANGED <<embVars, dbVars, req, sim, srv, http, look, prev, emb, ui>>
RequestStep == UNCHANGED <<embVars, dbVars, rd, sim, srv, http, look, prev, emb, ui>>

NextEmbedder ==
  \/ \E c \in Callers : initializeEmbedder(c) /\ EmbedderStep
  \/ \E c \in Callers : pipelineResolved(c) /\ EmbedderStep
  \/ \E c \in Callers : pipelineRejected(c) /\ EmbedderStep
  \/ \E c \in Callers : waitLoopExit(c) /\ EmbedderStep
  \/ \E c \in Callers : callerContinues(c) /\ EmbedderStep

NextDb ==
  \/ initializeDatabase(Starter) /\ DatabaseStep
  \/ connectRejected(Starter) /\ DatabaseStep
  \/ readEmbeddingsFile(Starter) /\ DatabaseStep
  \/ fetchEmbeddings(Starter) /\ DatabaseStep
  \/ dropTable(Starter) /\ DatabaseStep
  \/ createTableRejectsEmpty(Starter) /\ DatabaseStep
  \/ createTableWrites(Starter) /\ DatabaseStep
  \/ createTableResolved(Starter) /\ DatabaseStep
  \/ dbCallerContinues(Starter) /\ DatabaseStep
  \/ readerGetsTable /\ ReaderStep
  \/ readerQuerySettles /\ ReaderStep
  \/ getDatabaseStats /\ ReaderStep
  \/ countRowsSettles /\ ReaderStep

InitSimilarity == sim = [distance |-> 0, similarity |-> 100 * 10, client |-> 100 * 10,
         library |-> 100 * 100, applied |-> FALSE]

Init ==
  /\ InitEmbedder /\ InitDatabase /\ InitReader /\ InitRequest
  /\ InitSimilarity /\ InitServer /\ InitLookup /\ InitHistory /\ InitEmbedQuery
  /\ InitUi

\* Concurrent callers of initializeEmbedder.
SpecEmbedder == Init /\ [][NextEmbedder]_vars

\* The embedder module with every model load completing in the end and the
\* wait loop's timer firing again and again. Callers need not call again.
FairEmbedder ==
  \A c \in Callers :
     /\ WF_vars((pipelineResolved(c) \/ pipelineRejected(c)) /\ EmbedderStep)
     /\ WF_vars(waitLoopExit(c) /\ EmbedderStep)

SpecEmbedderFair == SpecEmbedder /\ FairEmbedder

\* One initializeDatabase call with concurrent readers of the table.
SpecDb == Init /\ [][NextDb]_vars

\* The backend's modules: initializeDatabase and initializeEmbedder are each
\* called once, as start() does, and searches arrive at any moment.
InitBackend == Init /\ variant = "backend"

Next ==
  \/ initializeDatabase(Starter) /\ DatabaseStep
  \/ connectRejected(Starter) /\ DatabaseStep
  \/ readEmbeddingsFile(Starter) /\ DatabaseStep
  \/ createTableWrites(Starter) /\ DatabaseStep
  \/ createTableResolved(Starter) /\ DatabaseStep
  \/ initializeEmbedder(Starter) /\ EmbedderStep
  \/ pipelineResolved(Starter) /\ EmbedderStep
  \/ pipelineRejected(Starter) /\ EmbedderStep
  \/ \E query \in Queries, limit \in Limits :
       searchExamples(query, limit) /\ RequestStep
  \/ embedderRejected /\ RequestStep
  \/ \E n \in {D, D - 1} : embedderResolved(n) /\ RequestStep
  \/ tableSearchRejected /\ RequestStep
  \/ tableSearchResolved /\ RequestStep
  \/ requestEnds /\ RequestStep

Spec == InitBackend /\ [][Next]_vars

\* The backend process: start() initialises the services and listens, then
\* POST /api/search requests are served one after another.
ServerStep == UNCHANGED <<rd, req, sim, look, prev, emb, ui>>
PipelineStep == UNCHANGED <<embVars, dbVars, rd, sim, srv, http, look, prev, emb, ui>>

NextServer ==
  \/ start /\ ServerStep
  \/ connectRejected(Starter) /\ DatabaseStep
  \/ readEmbeddingsFile(Starter) /\ DatabaseStep
  \/ createTableWrites(Starter) /\ DatabaseStep
  \/ createTableResolved(Starter) /\ DatabaseStep
  \/ databaseSettled /\ ServerStep
  \/ pipelineResolved(Starter) /\ EmbedderStep
  \/ pipelineRejected(Starter) /\ EmbedderStep
  \/ embedderSettled /\ ServerStep
  \/ listenResolved /\ ServerStep
  \/ listenRejected /\ ServerStep
  \/ \E query \in Queries, limit \in Limits :
       postSearch(query, limit) /\ UNCHANGED <<embVars, dbVars, rd, sim, look, prev, emb, ui>>
  \/ embedderRejected /\ PipelineStep
  \/ \E n \in {D, D - 1} : embedderResolved(n) /\ PipelineStep
  \/ tableSearchRejected /\ PipelineStep
  \/ tableSearchResolved /\ PipelineStep
  \/ routeReplies /\ UNCHANGED <<embVars, dbVars, rd, sim, look, prev, emb, ui>>
  \/ replySent /\ UNCHANGED <<embVars, dbVars, rd, sim, look, prev, emb, ui>>

SpecServer == InitBackend /\ [][NextServer]_vars

\* The caller keeps the response of a search that succeeded, to compare a
\* later one with it.
callerKeepsResponse ==
  /\ req.pc = "done"
  /\ req.status = "ok"
  /\ prev' = [kind |-> "search", query |-> req.query, limit |-> req.limit,
              response |-> req.response]
  /\ req' = IdleRequest

\* Searches repeated over the backend's modules.
RepeatQueries ==
  { << Run(" ", 1) >>, << Run("a", 1) >>, << Run("a", MaxQueryLength) >> }
RepeatLimits == { << >>, << 1 >>, << 2 >>, << 1000 >> }

NextRepeat ==
  \/ initializeDatabase(Starter) /\ DatabaseStep
  \/ connectRejected(Starter) /\ DatabaseStep
  \/ readEmbeddingsFile(Starter) /\ DatabaseStep
  \/ createTableWrites(Starter) /\ DatabaseStep
  \/ createTableResolved(Starter) /\ DatabaseStep
  \/ initializeEmbedder(Starter) /\ EmbedderStep
  \/ pipelineResolved(Starter) /\ EmbedderStep
  \/ pipelineRejected(Starter) /\ EmbedderStep
  \/ \E query \in RepeatQueries, limit \in RepeatLimits :
       searchExamples(query, limit) /\ RequestStep
  \/ embedderRejected /\ RequestStep
  \/ \E n \in {D, D - 1} : embedderResolved(n) /\ RequestStep
  \/ tableSearchRejected /\ RequestStep
  \/ tableSearchResolved /\ RequestStep
  \/ requestEnds /\ RequestStep
  \/ callerKeepsResponse /\ UNCHANGED <<embVars, dbVars, rd, sim, srv, http, look, emb, ui>>

SpecRepeat == InitBackend /\ [][NextRepeat]_vars

\* getExampleById called at any moment, around one initializeDatabase call
\* at a time, in the backend and in the app.
LookupStep == UNCHANGED <<embVars, dbVars, rd, req, sim, srv, http, prev, emb, ui>>
LoadStep == UNCHANGED <<embVars, rd, req, sim, srv, http, look, prev, emb, ui>>

NextLookup ==
  \/ initializeDatabase(Starter) /\ LoadStep
  \/ connectRejected(Starter) /\ LoadStep
  \/ readEmbeddingsFile(Starter) /\ LoadStep
  \/ fetchEmbeddings(Starter) /\ LoadStep
  \/ dropTable(Starter) /\ LoadStep
  \/ createTableRejectsEmpty(Starter) /\ LoadStep
  \/ createTableWrites(Starter) /\ LoadStep
  \/ createTableResolved(Starter) /\ LoadStep
  \/ dbCallerContinues(Starter) /\ LoadStep
  \/ \E exampleId \in LookupIds : getExampleById(exampleId) /\ LookupStep
  \/ lookupResolved /\ LookupStep
  \/ lookupRejected /\ LookupStep
  \/ lookupEnds /\ LookupStep

SpecLookup == Init /\ [][NextLookup]_vars

\* The backend process with a client that repeats requests and keeps a
\* reply to compare the next with.
NextClient ==
  \/ start /\ ServerStep
  \/ connectRejected(Starter) /\ DatabaseStep
  \/ readEmbeddingsFile(Starter) /\ DatabaseStep
  \/ createTableWrites(Starter) /\ DatabaseStep
  \/ createTableResolved(Starter) /\ DatabaseStep
  \/ databaseSettled /\ ServerStep
  \/ pipelineResolved(Starter) /\ EmbedderStep
  \/ pipelineRejected(Starter) /\ EmbedderStep
  \/ embedderSettled /\ ServerStep
  \/ listenResolved /\ ServerStep
  \/ listenRejected /\ ServerStep
  \/ \E query \in RepeatQueries, limit \in RepeatLimits :
       postSearch(query, limit) /\ UNCHANGED <<embVars, dbVars, rd, sim, look, prev, emb, ui>>
  \/ embedderRejected /\ PipelineStep
  \/ \E n \in {D, D - 1} : embedderResolved(n) /\ PipelineStep
  \/ tableSearchRejected /\ PipelineStep
  \/ tableSearchResolved /\ PipelineStep
  \/ routeReplies /\ UNCHANGED <<embVars, dbVars, rd, sim, look, prev, emb, ui>>
  \/ replySent /\ UNCHANGED <<embVars, dbVars, rd, sim, look, prev, emb, ui>>
  \/ clientKeepsReply /\ UNCHANGED <<embVars, dbVars, rd, sim, look, emb, ui>>

SpecClient == InitBackend /\ [][NextClient]_vars

\* embedQuery called at any moment around the initialisation of the
\* embedder, in the backend and in the app.
EmbedTexts == { << >>, << Run(" ", 2) >>, << Run("a", 1) >>, << Run("a", MaxQueryLength) >> }
OtherStep == UNCHANGED <<dbVars, rd, req, sim, srv, http, look, prev, ui>>

NextEmbedQuery ==
  \/ initializeEmbedder(Starter) /\ EmbedderStep
  \/ pipelineResolved(Starter) /\ EmbedderStep
  \/ pipelineRejected(Starter) /\ EmbedderStep
  \/ callerContinues(Starter) /\ EmbedderStep
  \/ pipelineResolved(Asker) /\ EmbedderStep
  \/ pipelineRejected(Asker) /\ EmbedderStep
  \/ waitLoopExit(Asker) /\ EmbedderStep
  \/ \E query \in EmbedTexts : embedQuery(query) /\ OtherStep
  \/ embedQueryInitialized /\ OtherStep
  \/ \E n \in {D, D - 1} : embedQueryResolved(n) /\ OtherStep
  \/ embedQueryRejected /\ OtherStep
  \/ embedQueryEnds /\ OtherStep

SpecEmbedQuery == Init /\ [][NextEmbedQuery]_vars

\* The backend's modules at run time: initializeDatabase and
\* initializeEmbedder called again and again by one caller, with searches,
\* lookups by id and row counts in between.
RuntimeQueries == { << Run("a", 1) >> }
RuntimeLimits == { << 2 >> }
RuntimeIds == { << "e1" >>, << "zz" >> }
RuntimeFiles ==
  { [kind |-> "array", records |-> << >>],
    [kind |-> "array", records |-> UnitCorpus],
    [kind |-> "array", records |-> LongVectorCorpus] }

NextRuntime ==
  \/ initializeDatabase(Starter) /\ DatabaseStep
  \/ connectRejected(Starter) /\ DatabaseStep
  \/ readEmbeddingsFile(Starter) /\ file' \in RuntimeFiles /\ DatabaseStep
  \/ createTableWrites(Starter) /\ DatabaseStep
  \/ createTableResolved(Starter) /\ DatabaseStep
  \/ dbCallerContinues(Starter) /\ DatabaseStep
  \/ initializeEmbedder(Starter) /\ EmbedderStep
  \/ pipelineResolved(Starter) /\ EmbedderStep
  \/ pipelineRejected(Starter) /\ EmbedderStep
  \/ callerContinues(Starter) /\ EmbedderStep
  \/ \E query \in RuntimeQueries, limit \in RuntimeLimits :
       searchExamples(query, limit) /\ RequestStep
  \/ embedderRejected /\ RequestStep
  \/ embedderResolved(D) /\ RequestStep
  \/ tableSearchRejected /\ RequestStep
  \/ tableSearchResolved /\ RequestStep
  \/ requestEnds /\ RequestStep
  \/ \E exampleId \in RuntimeIds : getExampleById(exampleId) /\ LookupStep
  \/ lookupResolved /\ LookupStep
  \/ lookupRejected /\ LookupStep
  \/ lookupEnds /\ LookupStep
  \/ getDatabaseStats /\ ReaderStep
  \/ countRowsSettles /\ ReaderStep

SpecRuntime == InitBackend /\ [][NextRuntime]_vars

\* The backend process answering GET /api/health, POST /api/search and
\* GET /api/examples/:id requests one after another.
NextRoutes ==
  \/ start /\ ServerStep
  \/ connectRejected(Starter) /\ DatabaseStep
  \/ readEmbeddingsFile(Starter) /\ DatabaseStep
  \/ createTableWrites(Starter) /\ DatabaseStep
  \/ createTableResolved(Starter) /\ DatabaseStep
  \/ databaseSettled /\ ServerStep
  \/ pipelineResolved(Starter) /\ EmbedderStep
  \/ pipelineRejected(Starter) /\ EmbedderStep
  \/ embedderSettled /\ ServerStep
  \/ listenResolved /\ ServerStep
  \/ listenRejected /\ ServerStep
  \/ getHealth /\ UNCHANGED <<embVars, dbVars, rd, sim, look, prev, emb, ui>>
  \/ healthCountResolved /\ UNCHANGED <<embVars, dbVars, rd, sim, look, prev, emb, ui>>
  \/ healthCountRejected /\ UNCHANGED <<embVars, dbVars, rd, sim, look, prev, emb, ui>>
  \/ \E query \in RepeatQueries, limit \in RepeatLimits :
       postSearch(query, limit) /\ UNCHANGED <<embVars, dbVars, rd, sim, look, prev, emb, ui>>
  \/ embedderRejected /\ PipelineStep
  \/ \E n \in {D, D - 1} : embedderResolved(n) /\ PipelineStep
  \/ tableSearchRejected /\ PipelineStep
  \/ tableSearchResolved /\ PipelineStep
  \/ routeReplies /\ UNCHANGED <<embVars, dbVars, rd, sim, look, prev, emb, ui>>
  \/ \E id \in RuntimeIds :
       getExample(id) /\ UNCHANGED <<embVars, dbVars, rd, sim, prev, emb, ui>>
  \/ lookupResolved /\ LookupStep
  \/ lookupRejected /\ LookupStep
  \/ exampleReplies /\ UNCHANGED <<embVars, dbVars, rd, sim, prev, emb, ui>>
  \/ replySent /\ UNCHANGED <<embVars, dbVars, rd, sim, look, prev, emb, ui>>

SpecRoutes == InitBackend /\ [][NextRoutes]_vars

\* Two concurrent callers of initializeDatabase, each calling once.
DbCallers == {Starter, Asker}

NextDbConcurrent ==
  \/ \E c \in DbCallers : initializeDatabase(c) /\ DatabaseStep
  \/ \E c \in DbCallers : connectRejected(c) /\ DatabaseStep
  \/ \E c \in DbCallers : readEmbeddingsFile(c) /\ file' \in RuntimeFiles /\ DatabaseStep
  \/ \E c \in DbCallers : fetchEmbeddings(c) /\ file' \in RuntimeFiles /\ DatabaseStep
  \/ \E c \in DbCallers : dropTable(c) /\ DatabaseStep
  \/ \E c \in DbCallers : createTableRejectsEmpty(c) /\ DatabaseStep
  \/ \E c \in DbCallers : createTableWrites(c) /\ DatabaseStep
  \/ \E c \in DbCallers : createTableResolved(c) /\ DatabaseStep

SpecDbConcurrent == Init /\ [][NextDbConcurrent]_vars

\* The page: query edits, searches started by the button or the Enter key,
\* and their outcomes.
UiStep == UNCHANGED <<embVars, dbVars, rd, req, sim, srv, http, look, prev, emb>>

NextUi ==
  \/ \E value \in UiQueries : setQuery(value) /\ UiStep
  \/ \E via \in {"click", "enter"} : handleSearch(via) /\ UiStep
  \/ \E results \in UiResultLists : uiSearchResolved(results) /\ UiStep
  \/ \E message \in UiErrors : uiSearchRejected(message) /\ UiStep

SpecUi == Init /\ [][NextUi]_vars

\* The distances distanceToSimilarity is tried on: -1.000 to 4.000.
DistanceSamples == (0 - DistUnit)..(4 * DistUnit)

\* A distance is drawn, then each distanceToSimilarity of the repository is
\* applied to it.
InitSamples ==
  /\ InitEmbedder /\ InitDatabase /\ InitReader /\ InitRequest /\ InitServer
  /\ InitLookup /\ InitHistory /\ InitEmbedQuery /\ InitUi
  /\ variant = "backend"
  /\ store = AbsentStore
  /\ \E distance \in DistanceSamples :
       sim = [distance |-> distance, similarity |-> 0, client |-> 0,
              library |-> 0, applied |-> FALSE]

applyDistanceToSimilarity ==
  /\ ~sim.applied
  /\ sim' = [sim EXCEPT !.similarity = distanceToSimilarity(sim.distance),
                        !.client = clientDistanceToSimilarity(sim.distance),
                        !.library = libraryDistanceToSimilarity(sim.distance),
                        !.applied = TRUE]

NextSimilarity ==
  applyDistanceToSimilarity /\ UNCHANGED <<embVars, dbVars, rd, req, srv, http, look, prev, emb, ui>>

SpecSimilarity == InitSamples /\ [][NextSimilarity]_vars

\* ------------------------------------------------------------------ claims
\* C1: among concurrent initializeEmbedder calls at most one model load is in
\* flight, a caller arriving during a load starts none and waits, and once a
\* load has succeeded the model is loaded exactly once: later callers pass
\* through without loading.
C1_SingleLoad ==
  /\ [](/\ LoadsInFlight <= 1
        /\ isLoading <=> (LoadsInFlight = 1)
        /\ loadsSucceeded <= 1
        /\ (embedder # Null) <=> (loadsSucceeded = 1))
  /\ [][\A c \in Callers :
          (pcE[c] = "idle" /\ pcE'[c] # "idle") =>
             /\ isLoading => (pcE'[c] = "waiting" /\ loadsStarted' = loadsStarted)
             /\ embedder # Null =>
                  (pcE'[c] = "done" /\ retE'[c] = "already"
                     /\ loadsStarted' = loadsStarted)]_vars

C1_Witness ==
  /\ embedder # Null
  /\ \E c \in Callers : retE[c] = "waited"
  /\ \E c \in Callers : retE[c] = "already"

\* C3: during initializeDatabase a concurrent reader meets either "not
\* initialized" or the complete loaded corpus, never a table that is being
\* written, dropped, left by an earlier run or empty.
C3_AtomicLoad ==
  rd.obs.tag \in {"none", "NotInitialized"}
    \/ /\ rd.obs.tag \in {"rows", "count"}
       /\ rd.obs.complete
       /\ Len(rd.obs.rows) > 0
       /\ examplesTable # Null
       /\ rd.obs.rows = embeddings[Starter]

C3_Witness ==
  /\ rd.obs.tag = "rows"
  /\ Len(rd.obs.rows) > 1
  /\ variant = "app"

\* The validity of a query text, stated from its length and its trimmed
\* length.
InvalidText(query) == Length(trim(query)) = 0 \/ Length(query) > MaxQueryLength

InvalidQueryErrors == {EmptyQueryError, TooLongError}

\* The errors a search may end with before it reaches getTable.
EarlierFailures ==
  InvalidQueryErrors
    \cup { SearchFailed(EmbedderNotReadyError),
           SearchFailed(EmbeddingFailed(ModelError)) }
    \cup { SearchFailed(EmbeddingFailed(DimensionError(n))) : n \in {D - 1} }

\* C4 as claimed: a search of valid text issued before the corpus load has
\* completed fails with the NotInitialized error.
C4_Original ==
  (req.pc = "done" /\ ~req.loadedAtCall /\ ~InvalidText(req.query)) =>
     /\ req.status = "error"
     /\ req.error \in { DatabaseNotInitializedError,
                        SearchFailed(DatabaseNotInitializedError) }

\* C4 amended: a search that ends while the corpus is not loaded has failed,
\* with the wrapped NotInitialized error unless an earlier check failed
\* first; the only search issued before the load that succeeds is one whose
\* getTable ran after the load completed; no successful response is empty.
C4_FailsWhileNotLoaded ==
  req.pc = "done" =>
     /\ examplesTable = Null =>
          /\ req.status = "error"
          /\ req.searchCalls = 0
          /\ req.error \in EarlierFailures \cup {SearchFailed(DatabaseNotInitializedError)}
     /\ req.status = "ok" =>
          /\ examplesTable # Null
          /\ req.response.count >= 1
          /\ Len(req.response.results) >= 1

C4_Witness ==
  /\ req.pc = "done"
  /\ examplesTable = Null
  /\ embedder # Null
  /\ req.error = SearchFailed(DatabaseNotInitializedError)

\* C5: a query that fails validation is reported before any embedQuery call
\* or table search is made for it.
C5_ValidationFirst ==
  (req.pc # "idle" /\ InvalidText(req.query)) =>
     /\ req.pc = "done"
     /\ req.status = "error"
     /\ req.embedCalls = 0
     /\ req.searchCalls = 0

C5_Witness ==
  /\ req.pc = "done"
  /\ Length(req.query) > MaxQueryLength
  /\ Length(trim(req.query)) > 0
  /\ embedder # Null
  /\ examplesTable # Null

\* C6: a search fails with InvalidQuery exactly when the text is empty after
\* trimming or longer than 500; a valid text, of 500 characters too, fails
\* only when a service fails, and succeeds otherwise.
C6_InvalidQueryExactly ==
  req.pc = "done" =>
     /\ (req.error \in InvalidQueryErrors) <=> InvalidText(req.query)
     /\ (Length(req.query) = MaxQueryLength + 1 /\ Length(trim(req.query)) > 0)
          => req.error = TooLongError
     /\ ~InvalidText(req.query) =>
          \/ req.status = "ok"
          \/ /\ req.status = "error"
             /\ Head(req.error) = "Search query failed: "

C6_Witness ==
  /\ req.pc = "done"
  /\ req.status = "ok"
  /\ Length(req.query) = MaxQueryLength

\* C8: distanceToSimilarity(d) is 100 - 50 d rounded to one decimal and
\* clamped to 0..100: within half a tenth of 100 - 50 d where that lies in
\* 0..100, 100 below and 0 above; 100.0 at 0, 50.0 at 1, 0.0 at 2 and at 3.
C8_SimilarityFormula ==
  sim.applied =>
     LET exactTwentieths == 2 * 100 * 10 - (sim.distance * 2 * 50 * 10) \div DistUnit
         tenths == sim.similarity
     IN /\ exactTwentieths >= 2 * 100 * 10 => tenths = 100 * 10
        /\ exactTwentieths <= 0 => tenths = 0
        /\ (exactTwentieths > 0 /\ exactTwentieths < 2 * 100 * 10) =>
              /\ 2 * tenths - exactTwentieths <= 1
              /\ exactTwentieths - 2 * tenths <= 1
        /\ sim.distance = 0 => tenths = 100 * 10
        /\ sim.distance = DistUnit => tenths = 50 * 10
        /\ sim.distance = 2 * DistUnit => tenths = 0
        /\ sim.distance = 3 * DistUnit => tenths = 0

C8_Witness ==
  /\ sim.applied
  /\ sim.distance = 3 * DistUnit
  /\ sim.similarity = 0

\* Squared norm of a vector, in squared fifths.
\* C9 as claimed: every result of a successful search has similarity in
\* 0..100 and _distance in 0..2, and similarity never rises with _distance.
C9_Original ==
  (req.pc = "done" /\ req.status = "ok") =>
     \A i \in 1..Len(req.response.results) :
        LET r == req.response.results[i] IN
          /\ 0 <= r.similarity /\ r.similarity <= 100 * 10
          /\ 0 <= r._distance /\ r._distance <= 2 * DistUnit
          /\ \A j \in 1..Len(req.response.results) :
               r._distance <= req.response.results[j]._distance =>
                 r.similarity >= req.response.results[j].similarity

\* Position of the record with this example_id in the loaded table.
RowIndex(id) == CHOOSE k \in 1..Len(store.rows) : store.rows[k].example_id = id

\* C10: the results of a successful search are in non-decreasing _distance
\* order, records at equal distance in corpus order, and the response lists
\* the records in the order nearest-neighbour retrieval returned them.
C10_RankingOrder ==
  (req.pc = "done" /\ req.status = "ok") =>
     LET out == req.response.results IN
       /\ Len(out) = Len(req.retrieved)
       /\ \A i \in 1..Len(out) :
            /\ out[i].example_id = req.retrieved[i].example_id
            /\ out[i]._distance = req.retrieved[i]._distance
       /\ \A i, j \in 1..Len(out) :
            i < j =>
              /\ out[i]._distance <= out[j]._distance
              /\ out[i]._distance = out[j]._distance =>
                   RowIndex(out[i].example_id) < RowIndex(out[j].example_id)

C10_Witness ==
  /\ req.pc = "done"
  /\ req.status = "ok"
  /\ \E i, j \in 1..Len(req.response.results) :
       /\ i < j
       /\ req.response.results[i]._distance = req.response.results[j]._distance
       /\ req.response.results[i]._distance < req.response.results[Len(req.response.results)]._distance

\* C2: the server listens and takes requests only after initializeDatabase
\* and then initializeEmbedder have both succeeded; a failed corpus load or
\* model load is followed by process.exit(1), and no request is ever taken.
C2_ServeOnlyWhenReady ==
  /\ [](/\ srv.pc \in {"listen", "listening"} =>
             /\ examplesTable # Null /\ retD[Starter] = "loaded"
             /\ embedder # Null /\ retE[Starter] = "loaded"
        /\ (srv.served \/ http.pc # "idle" \/ req.pc # "idle") => srv.pc = "listening"
        /\ (pcE[Starter] # "idle" \/ loadsStarted > 0) => examplesTable # Null
        /\ (retD[Starter] = "threw" \/ retE[Starter] = "threw") =>
             /\ srv.pc \in {"initializeDatabase", "initializeEmbedder", "exited"}
             /\ ~srv.served
        /\ srv.pc = "exited" => (srv.exitCode = 1 /\ ~srv.served /\ http.pc = "idle"))
  /\ [][/\ ((retD[Starter] = "threw" \/ retE[Starter] = "threw") /\ srv' # srv)
             => (srv'.pc = "exited" /\ srv'.exitCode = 1)
        /\ srv.pc = "exited" => UNCHANGED vars]_vars

C2_Witness ==
  /\ srv.pc = "exited"
  /\ srv.exitCode = 1
  /\ retE[Starter] = "threw"
  /\ examplesTable # Null

\* C7 as claimed: whatever limit a search request carries, it is not refused
\* for it, and the limit passed to the nearest-neighbour search is
\* max(1, min(50, limit)), 10 when the limit is missing.
C7_LimitClampedNeverRejected ==
  LET asked == IF http.limit = << >> THEN DefaultLimit ELSE http.limit[1]
      textAccepted == Length(http.query) >= 1 /\ Length(http.query) <= MaxQueryLength
  IN /\ (http.pc = "replied" /\ textAccepted) => http.statusCode # 400
     /\ (http.pc = "handling" /\ req.searchCalls = 1) =>
           req.searchLimit = (IF asked < 1 THEN 1 ELSE IF asked > 50 THEN 50 ELSE asked)

\* C11: a search ends with an error and no response, or with the
\* min(clamped limit, corpus size) nearest records: never more results than
\* the limit or the corpus holds, no record left out that is nearer than one
\* returned, and count equal to the length of the result list.
C11_FullSetOrError ==
  req.pc = "done" =>
     /\ req.status \in {"ok", "error"}
     /\ req.status = "error" => (req.response = NoResponse /\ req.error # << >>)
     /\ req.status = "ok" =>
          LET out == req.response.results
              ids == {out[i].example_id : i \in 1..Len(out)}
          IN /\ req.error = << >>
             /\ Len(out) = Min(ClampLimit(req.limit), Len(store.rows))
             /\ Len(out) <= ClampLimit(req.limit)
             /\ Len(out) <= Len(store.rows)
             /\ req.response.count = Len(out)
             /\ Cardinality(ids) = Len(out)
             /\ \A k \in 1..Len(store.rows) :
                  store.rows[k].example_id \notin ids =>
                    \A i \in 1..Len(out) :
                       out[i]._distance <= L2Distance(req.queryVector, store.rows[k].vector)

C11_Witness ==
  /\ req.pc = "done"
  /\ req.status = "ok"
  /\ req.response.count = 2
  /\ Len(store.rows) > 2
  /\ req.limit = << 2 >>

\* C12: over the corpus (1,0), (0,1), (-1,0) and with the query vector
\* (1,0), a search with limit >= 3 returns the three records in that order,
\* with _distance 0, 1.414 and 2 and similarity 100.0, 29.3 and 0.0.
C12_KnownVectors ==
  (/\ req.pc = "done" /\ req.status = "ok"
   /\ store.rows = UnitCorpus
   /\ req.queryVector = Vec(VecScale, 0, D)
   /\ ClampLimit(req.limit) >= 3) =>
     LET out == req.response.results IN
       /\ Len(out) = 3
       /\ [i \in 1..3 |-> out[i].example_id] = [i \in 1..3 |-> UnitCorpus[i].example_id]
       /\ [i \in 1..3 |-> out[i]._distance] = << 0, 1414, 2 * DistUnit >>
       /\ [i \in 1..3 |-> out[i].similarity] = << 100 * 10, 293, 0 >>

C12_Witness ==
  /\ req.pc = "done" /\ req.status = "ok"
  /\ store.rows = UnitCorpus
  /\ req.queryVector = Vec(VecScale, 0, D)
  /\ req.limit = << MaxLimit + 1 >>
  /\ req.response.count = 3

Present(id) == \E k \in 1..Len(store.rows) : << store.rows[k].example_id >> = id

\* C14 as claimed: with the corpus loaded, and unless the store itself
\* fails, getExampleById returns the record whose example_id is the id,
\* returns null and no error for a non-blank id the corpus does not hold,
\* and fails with the empty-id error only for a blank id.
C14_LookupByKey ==
  (look.pc = "done" /\ look.loadedAtCall /\ look.cause # StoreError) =>
     /\ look.status = "ok" => << look.example.example_id >> = look.id
     /\ Present(look.id) => look.status = "ok"
     /\ (~Present(look.id) /\ ~IdBlank(look.id)) => look.status = "null"
     /\ look.status = "error" => (look.error = ExampleIdEmptyError /\ IdBlank(look.id))

\* C15 as claimed: getExampleById called while the corpus is not loaded
\* fails with the NotInitialized error (a blank id apart, which the
\* validation refuses first) and never answers null.
C15_LookupBeforeLoad ==
  (look.pc = "done" /\ ~look.loadedAtCall) =>
     /\ look.status = "error"
     /\ look.queries = 0
     /\ look.error \in {RetrieveFailed(DatabaseNotInitializedError), ExampleIdEmptyError}
     /\ look.error = ExampleIdEmptyError => IdBlank(look.id)

\* C16 as claimed: a search request whose query is empty, blank or longer
\* than 500 characters is answered with a 400-class status, never a 5xx.
C16_InvalidQueryIs400 ==
  (http.pc = "replied" /\ InvalidText(http.query)) =>
     (http.statusCode >= 400 /\ http.statusCode < 500)

\* C17 as claimed: two searches of the same valid request that both fail
\* inside the server, whatever the cause, get the same reply.
C17_GenericFailure ==
  (/\ http.pc = "replied" /\ http.statusCode >= 500
   /\ ~InvalidText(http.query)
   /\ prev.kind = "reply" /\ prev.statusCode >= 500
   /\ prev.query = http.query /\ prev.limit = http.limit) =>
     (http.statusCode = prev.statusCode /\ http.message = prev.message)

\* C18 as claimed: embedQuery called while the model is not initialized
\* fails with EmbedderNotReady; it starts no model load and returns no
\* vector.
C18_EmbedQueryNotReady ==
  (emb.pc \in {"initializing", "model", "done"} /\ ~emb.readyAtCall) =>
     /\ emb.pc = "done"
     /\ emb.status = "error"
     /\ emb.error = EmbedderNotReadyError
     /\ ~emb.startedLoad
     /\ emb.vector = << >>

\* An embeddings file that must not load: missing, not JSON, not an array,
\* an empty array, or holding a record whose vector has not D components.
BadFile(f) ==
  \/ f.kind \in {"missing", "malformed", "notArray"}
  \/ Len(f.records) = 0
  \/ \E i \in 1..Len(f.records) : Len(f.records[i].vector) # D

\* C19 as claimed: an initializeDatabase call that read such a file has
\* failed, and the store is still not initialized: isInitialized is false
\* and getTable fails.
C19_CorpusLoadError ==
  (pcD[Starter] = "done" /\ retD[Starter] \in {"loaded", "threw"} /\ BadFile(file)) =>
     /\ retD[Starter] = "threw"
     /\ examplesTable = Null
     /\ ~isDbInitialized
     /\ ~getTable.ok

\* C20: once the corpus is loaded, no step of a search, a lookup by id, a
\* row count or a further initializeDatabase call changes the table, its
\* handle or the connection, and no step changes a loaded embedder.
C20_LoadedCorpusImmutable ==
  [][/\ examplesTable # Null =>
          (store' = store /\ examplesTable' = examplesTable /\ db' = db)
     /\ embedder # Null => embedder' = embedder]_vars

C20_Witness ==
  /\ examplesTable # Null
  /\ embedder # Null
  /\ retD[Starter] = "already"
  /\ req.pc = "done" /\ req.status = "ok"
  /\ look.pc = "done" /\ look.status = "ok"

\* C21: within one search request the embedder is called at most once and
\* the table search at most once, and a call that fails ends the request
\* with an error in that very step, with no further call made.
C21_NoRetries ==
  /\ [](req.embedCalls <= 1 /\ req.searchCalls <= 1)
  /\ [][(req.pc \in {"embedding", "searching"} /\ req'.status = "error") =>
          /\ req'.pc = "done"
          /\ req'.embedCalls = req.embedCalls
          /\ req'.searchCalls = req.searchCalls]_vars

C21_Witness ==
  /\ req.pc = "done"
  /\ req.status = "error"
  /\ req.error = SearchFailed(StoreError)
  /\ req.embedCalls = 1
  /\ req.searchCalls = 1

\* C22: every vector the nearest-neighbour search compares has exactly D
\* components: the query vector of a search under way, since embedQuery
\* throws on any other length, and the vector of every record of a loaded
\* corpus.
C22_AllVectorsHaveD ==
  /\ req.pc = "searching" => Len(req.queryVector) = D
  /\ req.status = "ok" => Len(req.queryVector) = D
  /\ examplesTable # Null =>
       \A i \in 1..Len(store.rows) : Len(store.rows[i].vector) = D

C22_Witness ==
  /\ req.pc = "searching"
  /\ Len(req.queryVector) = D
  /\ examplesTable # Null
  /\ Len(store.rows) > 1

\* C23: a health report is truthful: its database flag is true exactly when
\* a corpus load has succeeded, its embedder flag exactly when a model load
\* has succeeded, and its examplesCount is the number of records of the
\* loaded corpus.
C23_TruthfulReport ==
  (http.pc = "replied" /\ http.report # NoReport) =>
     /\ http.report.database = (retD[Starter] = "loaded")
     /\ http.report.embedder = (retE[Starter] = "loaded")
     /\ http.report.examplesCount =
          IF retD[Starter] = "loaded" THEN Len(store.rows) ELSE 0

\* C24: no result of a search response sent to a client carries the
\* record's vector; each carries the record's metadata, a _distance of at
\* least 0 and a similarity from 0 to 100 (here in tenths of a percent).
C24_NoVectorInReply ==
  (http.pc = "replied" /\ http.statusCode = 200 /\ http.report = NoReport) =>
     \A i \in 1..Len(http.payload.results) :
        LET r == http.payload.results[i] IN
          /\ "vector" \notin DOMAIN r
          /\ {"example_id", "title"} \subseteq DOMAIN r
          /\ r._distance >= 0
          /\ r.similarity >= 0 /\ r.similarity <= 100 * 10

C24_Witness ==
  /\ http.pc = "replied"
  /\ http.statusCode = 200
  /\ Len(http.payload.results) > 1

\* C25: a call of initializeEmbedder that has returned without throwing,
\* be it at once, after its own load or after waiting on another caller's
\* load, finds the embedder initialised.
C25_ReturnMeansReady ==
  \A c \in Callers :
     (pcE[c] = "done" /\ retE[c] \in {"already", "loaded", "waited"}) =>
        isEmbedderInitialized

Loaders ==
  {c \in DbCallers : pcD[c] \in {"dropping", "creating"} \/ retD[c] = "loaded"}

\* C27: under any interleaving of concurrent initializeDatabase calls the
\* corpus is loaded by one caller at most, and a table whose handle has been
\* published is never dropped or rewritten by another caller's load.
C27_LoadedAtMostOnce ==
  /\ Cardinality(Loaders) <= 1
  /\ examplesTable # Null => TableView.complete

\* The failures of a service that was called before its initialisation.
NotReadyErrors ==
  { SearchFailed(EmbedderNotReadyError),
    SearchFailed(DatabaseNotInitializedError),
    RetrieveFailed(DatabaseNotInitializedError) }

\* C28: while the backend accepts requests the corpus and the embedder are
\* both initialised, no step resets either, and no search or lookup it
\* serves fails for a service that is not initialised.
C28_ServedNeverUninitialized ==
  /\ [](/\ srv.pc = "listening" => (isDbInitialized /\ isEmbedderInitialized)
        /\ req.status = "error" => req.error \notin NotReadyErrors
        /\ look.status = "error" => look.error \notin NotReadyErrors
        /\ http.pc = "replied" => http.message \notin NotReadyErrors)
  /\ [][/\ isDbInitialized => isDbInitialized'
        /\ isEmbedderInitialized => isEmbedderInitialized']_vars

C28_Witness ==
  /\ srv.pc = "listening"
  /\ http.pc = "looking"
  /\ look.pc = "done"
  /\ look.status = "ok"

\* C29: in the page a search error and a non-empty result list are never
\* shown together, and isSearching is false whenever no search is awaited.
C29_ErrorOrResults ==
  /\ ~(ui.searchError # << >> /\ Len(ui.results) > 0)
  /\ ~ui.awaiting => ~ui.isSearching

\* C30: the backend's, the API client's and the in-browser library's
\* distanceToSimilarity give the same value for every distance (the
\* library's is in hundredths of a percent, the others in tenths).
C30_SameSimilarity ==
  sim.applied =>
     /\ sim.client = sim.similarity
     /\ sim.library = 10 * sim.similarity

====
